---------------------------- MODULE Spec2Model ----------------------------
(***************************************************************************)
(* PhishDetect: lexical URL feature extraction (feature_extraction.py),    *)
(* the two training scripts (model.py, model-checkpoint.py) and the Flask  *)
(* serving code (app.py).                                                  *)
(*                                                                         *)
(* A string is a sequence of one-character strings.  The URLs explored are *)
(* built from the characters of Pieces below: lower-case ASCII letters,    *)
(* the digit 1 and the punctuation  : / . ? @ - [ %  .  They hold no       *)
(* whitespace or control character, no upper-case letter, no ']' and no    *)
(* non-ASCII character, so urlsplit's lstrip/replace of control            *)
(* characters, its lower() of the scheme, _check_bracketed_host and        *)
(* _checknetloc leave these inputs as they are.                            *)
(***************************************************************************)
EXTENDS Integers, Sequences, FiniteSets, TLC

(***************************************************************************)
(* Bounds of the exploration.                                              *)
(***************************************************************************)
MaxPieces == 4

MaxRequests == 2

MaxRuns == 1

MaxRows == 3

ProbaScale == 2

(***************************************************************************)
(* Characters and Python string primitives.                                *)
(***************************************************************************)
Digits == {"0", "1", "2", "3", "4", "5", "6", "7", "8", "9"}

Letters == {"a", "b", "c", "d", "e", "f", "g", "h", "i", "j", "k", "l", "m",
            "n", "o", "p", "q", "r", "s", "t", "u", "v", "w", "x", "y", "z"}

\* urllib.parse.scheme_chars restricted to lower case
SchemeChars == Letters \cup Digits \cup {"+", "-", "."}

\* a character matched by the regex class \w (so \W is its complement)
IsWord(c) == c \in Letters \cup Digits \cup {"_"}

\* s[i:] with a 1-based i
Tail_(s, i) == SubSeq(s, i, Len(s))

\* pat occurs in s at 1-based position i
MatchAt(s, pat, i) ==
    /\ i >= 1
    /\ i + Len(pat) - 1 <= Len(s)
    /\ \A k \in 1..Len(pat) : s[i + k - 1] = pat[k]

\* str.find(pat, start) with 1-based positions; 0 when absent
Find(s, pat, start) ==
    LET hits == {i \in start..Len(s) : MatchAt(s, pat, i)}
    IN  IF hits = {} THEN 0 ELSE CHOOSE i \in hits : \A j \in hits : i <= j

\* str.rfind(pat) with 1-based positions; 0 when absent
RFind(s, pat) ==
    LET hits == {i \in 1..Len(s) : MatchAt(s, pat, i)}
    IN  IF hits = {} THEN 0 ELSE CHOOSE i \in hits : \A j \in hits : i >= j

\* pat in s  /  re.search of a literal
Contains(s, pat) == \E i \in 1..Len(s) : MatchAt(s, pat, i)

\* str.count of a single character
Count(s, c) == Cardinality({i \in 1..Len(s) : s[i] = c})

StartsWith(s, pat) == MatchAt(s, pat, 1)

EndsWith(s, pat) == MatchAt(s, pat, Len(s) - Len(pat) + 1)

(***************************************************************************)
(* urllib.parse.urlparse, as called at feature_extraction.py:17.           *)
(* The result is [ok, scheme, netloc, path, params, query, fragment]; ok   *)
(* is FALSE when urlsplit raises ValueError ("Invalid IPv6 URL").          *)
(***************************************************************************)
uses_params == {<<>>, <<"f","t","p">>, <<"h","t","t","p">>,
                <<"h","t","t","p","s">>, <<"s","f","t","p">>,
                <<"t","e","l">>, <<"s","i","p">>}

\* _splitnetloc(url, 2): the position where the authority ends, at the
\* first of / ? # or after the last character
NetlocEnd(url) ==
    LET ds == {Find(url, <<c>>, 3) : c \in {"/", "?", "#"}} \ {0}
    IN  IF ds = {} THEN Len(url) + 1
        ELSE CHOOSE d \in ds : \A e \in ds : d <= e

\* _splitparams(url) with i the position found for ';': <<path, params>>
SplitAt(url, i) ==
    IF i = 0 /\ Contains(url, <<"/">>) THEN <<url, <<>>>>
    ELSE IF i = 0 THEN <<SubSeq(url, 1, Len(url) - 1), url>>
    ELSE <<SubSeq(url, 1, i - 1), Tail_(url, i + 1)>>

\* _splitparams(url)
SplitParams(url) ==
    SplitAt(url, IF Contains(url, <<"/">>)
                 THEN Find(url, <<";">>, RFind(url, <<"/">>))
                 ELSE Find(url, <<";">>, 1))

ParseFailure == [ok |-> FALSE, scheme |-> <<>>, netloc |-> <<>>, path |-> <<>>,
                 params |-> <<>>, query |-> <<>>, fragment |-> <<>>]

\* urlparse, lines 397-401 of urllib/parse.py: the params are split off
\* the path
WithParams(scheme, netloc, split, query, fragment) ==
    [ok |-> TRUE, scheme |-> scheme, netloc |-> netloc, path |-> split[1],
     params |-> split[2], query |-> query, fragment |-> fragment]

AfterQuery(scheme, netloc, url, query, fragment) ==
    WithParams(scheme, netloc,
               IF scheme \in uses_params /\ Contains(url, <<";">>)
               THEN SplitParams(url) ELSE <<url, <<>>>>,
               query, fragment)

\* urlsplit: url.split('?', 1), q the position of the first '?'
SplitQuery(scheme, netloc, url, q, fragment) ==
    AfterQuery(scheme, netloc,
               IF q > 0 THEN SubSeq(url, 1, q - 1) ELSE url,
               IF q > 0 THEN Tail_(url, q + 1) ELSE <<>>,
               fragment)

\* urlsplit: url.split('#', 1), h the position of the first '#'
SplitFragment(scheme, netloc, url, h) ==
    SplitQuery(scheme, netloc,
               IF h > 0 THEN SubSeq(url, 1, h - 1) ELSE url,
               Find(IF h > 0 THEN SubSeq(url, 1, h - 1) ELSE url, <<"?">>, 1),
               IF h > 0 THEN Tail_(url, h + 1) ELSE <<>>)

\* urlsplit: the bracket check on a netloc that was split off
CheckNetloc(scheme, hasNetloc, netloc, url) ==
    IF hasNetloc /\ (Contains(netloc, <<"[">>) # Contains(netloc, <<"]">>))
    THEN ParseFailure
    ELSE SplitFragment(scheme, netloc, url, Find(url, <<"#">>, 1))

\* urlsplit: if url[:2] == '//' the netloc is split off at delim
SplitNetloc(scheme, url, hasNetloc, delim) ==
    CheckNetloc(scheme, hasNetloc,
                IF hasNetloc THEN SubSeq(url, 3, delim - 1) ELSE <<>>,
                IF hasNetloc THEN Tail_(url, delim) ELSE url)

AfterScheme(scheme, url) ==
    SplitNetloc(scheme, url, StartsWith(url, <<"/", "/">>), NetlocEnd(url))

\* urlsplit: i is the position of the first ':'; what precedes it is the
\* scheme when it starts with a letter and holds scheme characters only
SplitScheme(url, i) ==
    IF /\ i >= 2
       /\ url[1] \in Letters
       /\ \A k \in 1..(i - 1) : url[k] \in SchemeChars
    THEN AfterScheme(SubSeq(url, 1, i - 1), Tail_(url, i + 1))
    ELSE AfterScheme(<<>>, url)

urlparse(URL) == SplitScheme(URL, Find(URL, <<":">>, 1))

(***************************************************************************)
(* feature_extraction.py: extract_features.                                *)
(***************************************************************************)
\* features[name] = value on a Python dict: a new key is appended, an
\* existing key keeps its position
Put(features, name, value) ==
    IF \E k \in 1..Len(features) : features[k].name = name
    THEN [k \in 1..Len(features) |->
             IF features[k].name = name
             THEN [name |-> name, value |-> value] ELSE features[k]]
    ELSE Append(features, [name |-> name, value |-> value])

\* len(re.findall(r'\W', URL))
NumSpecialChars(URL) == Cardinality({i \in 1..Len(URL) : ~IsWord(URL[i])})

\* re.search(r'http://|https://', URL)
HasHttp(URL) ==
    \/ Contains(URL, <<"h","t","t","p",":","/","/">>)
    \/ Contains(URL, <<"h","t","t","p","s",":","/","/">>)

\* a variant that takes only a single slash for malformed
HasMalformedUrlSingleSlash(URL) ==
    \E i \in 1..Len(URL) :
        /\ \/ MatchAt(URL, <<"h","t","t","p",":","/">>, i) /\ ~MatchAt(URL, <<"/">>, i + 6)
           \/ MatchAt(URL, <<"h","t","t","p","s",":","/">>, i) /\ ~MatchAt(URL, <<"/">>, i + 7)

\* re.search(r'http:\/|https:\/', URL)
HasMalformedUrl(URL) ==
    \/ Contains(URL, <<"h","t","t","p",":","/">>)
    \/ Contains(URL, <<"h","t","t","p","s",":","/">>)

\* the regex assertion \b between positions i-1 and i of s (1-based; i may
\* be Len(s)+1)
WordBoundary(s, i) ==
    LET before == i >= 2 /\ IsWord(s[i - 1])
        after == i <= Len(s) /\ IsWord(s[i])
    IN  before # after

\* re.search(r'\b\d{1,3}\.\d{1,3}\.\d{1,3}\.\d{1,3}\b', domain)
HasIpAddress(domain) ==
    \E i \in 1..Len(domain) : \E a, b, c, d \in 1..3 :
        LET e == i + a + b + c + d + 3
            grp == (i..(i + a - 1)) \cup ((i + a + 1)..(i + a + b))
                   \cup ((i + a + b + 2)..(i + a + b + c + 1))
                   \cup ((i + a + b + c + 3)..(e - 1))
            dots == {i + a, i + a + b + 1, i + a + b + c + 2}
        IN  /\ e - 1 <= Len(domain)
            /\ \A k \in grp : domain[k] \in Digits
            /\ \A k \in dots : domain[k] = "."
            /\ WordBoundary(domain, i)
            /\ WordBoundary(domain, e)

\* the alternatives of the regex at feature_extraction.py:29
Shorteners == {<<"b","i","t",".","l","y">>, <<"g","o","o",".","g","l">>,
               <<"t",".","c","o">>,
               <<"t","i","n","y","u","r","l",".","c","o","m">>}

\* re.search(r'bit\.ly|goo\.gl|t\.co|tinyurl\.com', domain)
IsShortened(domain) == \E sh \in Shorteners : Contains(domain, sh)

\* the tuple of feature_extraction.py:34
SuspiciousTlds == {<<".","t","k">>, <<".","m","l">>, <<".","g","a">>,
                   <<".","c","f">>, <<".","g","q">>}

HasSuspiciousTld(domain) == \E tld \in SuspiciousTlds : EndsWith(domain, tld)

B2I(b) == IF b THEN 1 ELSE 0

\* a variant that clamps the count at zero
NumSubdomainsClamped(domain) ==
    IF Count(domain, ".") = 0 THEN 0 ELSE Count(domain, ".") - 1

\* feature_extraction.py:31
NumSubdomains(domain) == Count(domain, ".") - 1

\* lines 8-14: the features computed before urlparse
BasicFeatures(URL) ==
    LET f1 == Put(<<>>, "url_length", Len(URL))
        f2 == Put(f1, "num_digits",
                  Cardinality({i \in 1..Len(URL) : URL[i] \in Digits}))
        f3 == Put(f2, "num_special_chars", NumSpecialChars(URL))
        f4 == Put(f3, "has_http", B2I(HasHttp(URL)))
    IN  Put(f4, "has_https", B2I(StartsWith(URL, <<"h","t","t","p","s">>)))

\* lines 21-34: the features of the parsed URL
DomainFeatures(f5, URL, domain, path) ==
    LET f6 == Put(f5, "num_dots", Count(domain, "."))
        f7 == Put(f6, "num_hyphens", Count(domain, "-"))
        f8 == Put(f7, "domain_length", Len(domain))
        f9 == Put(f8, "num_params", Count(URL, "?"))
        f10 == Put(f9, "path_length", Len(path))
        f11 == Put(f10, "has_ip_address", B2I(HasIpAddress(domain)))
        f12 == Put(f11, "is_shortened", B2I(IsShortened(domain)))
        f13 == Put(f12, "has_at_symbol", B2I(Contains(URL, <<"@">>)))
        f14 == Put(f13, "num_subdomains", NumSubdomains(domain))
        f15 == Put(f14, "has_malformed_url", B2I(HasMalformedUrl(URL)))
        f16 == Put(f15, "num_encoded_chars", Count(URL, "%"))
    IN  Put(f16, "has_suspicious_tld", B2I(HasSuspiciousTld(domain)))

\* a variant that returns early for a URL without a domain
FromParsedEarlyReturn(URL, parsed_url) ==
    IF ~parsed_url.ok
    THEN [raised |-> "ValueError", features |-> <<>>]
    ELSE IF parsed_url.netloc = <<>>
    THEN [raised |-> "none", features |-> BasicFeatures(URL)]
    ELSE [raised |-> "none",
          features |-> DomainFeatures(BasicFeatures(URL), URL,
                                      parsed_url.netloc, parsed_url.path)]

\* lines 18-36, given what urlparse returned or raised
FromParsed(URL, parsed_url) ==
    IF ~parsed_url.ok
    THEN [raised |-> "ValueError", features |-> <<>>]
    ELSE [raised |-> "none",
          features |-> DomainFeatures(BasicFeatures(URL), URL,
                                      parsed_url.netloc, parsed_url.path)]

\* extract_features(URL): the dict returned, or the exception raised
extract_features(URL) == FromParsed(URL, urlparse(URL))

\* the keys of a dict, in order
Keys(features) == [k \in 1..Len(features) |-> features[k].name]

\* features[name]
Get(features, name) ==
    LET k == CHOOSE j \in 1..Len(features) : features[j].name = name
    IN  features[k].value

(***************************************************************************)
(* Inputs: URLs are concatenations of at most MaxPieces pieces.            *)
(***************************************************************************)
Pieces == {<<"h","t","t","p",":","/">>, <<"h","t","t","p","s",":","/">>,
           <<"/">>, <<".">>, <<"1",".","1">>, <<"b","i","t",".","l","y">>,
           <<".","t","k">>, <<"?">>, <<"@">>, <<"-">>, <<"[">>, <<"%">>}

RECURSIVE UrlsUpTo(_)
UrlsUpTo(n) ==
    IF n = 0 THEN {<<>>}
    ELSE LET shorter == UrlsUpTo(n - 1)
         IN  shorter \cup {u \o p : u \in shorter, p \in Pieces}

URLs == UrlsUpTo(MaxPieces)

VARIABLES
    URL,        \* extraction: the argument of extract_features
    result,     \* extraction: what the call returned or raised
    artifact,   \* the file phishing_model.pkl
    loads,      \* serving: joblib.load calls that returned a model
    req,        \* serving: the /analyze requests of one app.py process
    trainer     \* training: one run of model.py or model-checkpoint.py

vars == <<URL, result, artifact, loads, req, trainer>>

(***************************************************************************)
(* The model artifact.                                                     *)
(***************************************************************************)
\* the columns pd.DataFrame([features]) gets from a dict of extract_features
CurrentSchema == Keys(extract_features(<<>>).features)

\* the columns of an artifact fitted on the same features in another order
\* (the first two exchanged)
StaleSchema == <<CurrentSchema[2], CurrentSchema[1]>>
               \o SubSeq(CurrentSchema, 3, Len(CurrentSchema))

Absent == [state |-> "absent", schema |-> <<>>, classes |-> <<>>]

\* what an interrupted joblib.dump leaves: open(..., 'wb') has truncated
\* the file and the pickle is incomplete
Partial == [state |-> "partial", schema |-> <<>>, classes |-> <<>>]

\* a fitted classifier: feature_names_in_ and classes_
Fitted(schema, classes) ==
    [state |-> "fitted", schema |-> schema, classes |-> classes]

\* the files a serving process may find on disk
ServedArtifacts == {Absent, Partial,
                    Fitted(CurrentSchema, <<0, 1>>),
                    Fitted(CurrentSchema, <<1>>),
                    Fitted(StaleSchema, <<0, 1>>)}

(***************************************************************************)
(* app.py: predict_URL and the /analyze handler.                           *)
(***************************************************************************)
Requests == 1..MaxRequests

RequestURLs == {<<>>,
                <<"h","t","t","p",":","/","/","b","i","t",".","l","y">>,
                <<"h","t","t","p",":","/","/","[">>}

NoModel == Absent

IdleRequest == [pc |-> "idle", URL |-> <<>>, model |-> NoModel,
                features |-> <<>>, prediction_proba |-> <<>>,
                prediction |-> -1, confidence |-> -1,
                raised |-> "none", verdict |-> "none"]

\* the rows predict_proba can return for a model over n classes: the
\* probabilities, in units of 1/ProbaScale, sum to one
Distributions(n) ==
    {p \in [1..n -> 0..ProbaScale] :
        IF n = 1 THEN p[1] = ProbaScale ELSE p[1] + p[2] = ProbaScale}

\* a variant that takes the smallest probability
MinOf(p) == CHOOSE m \in {p[k] : k \in 1..Len(p)} :
                \A k \in 1..Len(p) : p[k] >= m

\* max(prediction_proba)
MaxOf(p) == CHOOSE m \in {p[k] : k \in 1..Len(p)} :
                \A k \in 1..Len(p) : p[k] <= m

\* app.py:14
Confidence(prediction_proba) == (MaxOf(prediction_proba) * 100) \div ProbaScale

\* app.py:23-24: the form's URL arrives and predict_URL is entered
Analyze(i, u) ==
    /\ req[i].pc = "idle"
    /\ req' = [req EXCEPT ![i] = [IdleRequest EXCEPT !.pc = "load", !.URL = u]]
    /\ UNCHANGED <<URL, result, artifact, loads, trainer>>

\* app.py:9: model = joblib.load('phishing_model.pkl')
LoadModel(i) ==
    /\ req[i].pc = "load"
    /\ IF artifact.state = "fitted"
       THEN /\ req' = [req EXCEPT ![i].pc = "extract", ![i].model = artifact]
            /\ loads' = loads + 1
       ELSE /\ req' = [req EXCEPT ![i].pc = "error",
                                  ![i].raised =
                                      IF artifact.state = "absent"
                                      THEN "FileNotFoundError" ELSE "EOFError"]
            /\ UNCHANGED loads
    /\ UNCHANGED <<URL, result, artifact, trainer>>

\* app.py:10: features = extract_features(URL)
ExtractRequest(i) ==
    /\ req[i].pc = "extract"
    /\ LET r == extract_features(req[i].URL)
       IN  IF r.raised # "none"
           THEN req' = [req EXCEPT ![i].pc = "error", ![i].raised = r.raised]
           ELSE req' = [req EXCEPT ![i].pc = "score", ![i].features = r.features]
    /\ UNCHANGED <<URL, result, artifact, loads, trainer>>

\* app.py:11-15: the one-row frame is scored.  predict_URL compares no
\* schema; on other columns than the model was fitted on, scikit-learn
\* either raises ValueError or scores the row, depending on its version.
ScoreRequest(i) ==
    /\ req[i].pc = "score"
    /\ LET model == req[i].model
           n == Len(model.classes)
       IN  \/ /\ Keys(req[i].features) # model.schema
              /\ req' = [req EXCEPT ![i].pc = "error", ![i].raised = "ValueError"]
           \/ \E prediction_proba \in Distributions(n) : \E k \in 1..n :
                /\ prediction_proba[k] = MaxOf(prediction_proba)
                /\ req' = [req EXCEPT ![i].pc = "result",
                                      ![i].prediction_proba = prediction_proba,
                                      ![i].prediction = model.classes[k],
                                      ![i].confidence = Confidence(prediction_proba)]
    /\ UNCHANGED <<URL, result, artifact, loads, trainer>>

\* app.py:25
ResultText(prediction) == IF prediction = 1 THEN "False" ELSE "True"

\* app.py:25-26: results.html is rendered
Render(i) ==
    /\ req[i].pc = "result"
    /\ req' = [req EXCEPT ![i].pc = "done",
                          ![i].verdict = ResultText(req[i].prediction)]
    /\ UNCHANGED <<URL, result, artifact, loads, trainer>>

(***************************************************************************)
(* model.py and .ipynb_checkpoints/model-checkpoint.py: one training run.  *)
(***************************************************************************)
Scripts == {"model.py", "model-checkpoint.py"}

\* rows a dataset.csv may hold: URL and Label
RowPool == {[URL |-> <<"h","t","t","p",":","/","/","b","i","t",".","l","y">>,
             Label |-> 1],
            [URL |-> <<"/","/","1",".","1",".","t","k","/">>, Label |-> 0],
            [URL |-> <<"h","t","t","p",":","/","/","[">>, Label |-> 1]}

RECURSIVE RowsUpTo(_)
RowsUpTo(n) ==
    IF n = 0 THEN {<<>>}
    ELSE LET shorter == RowsUpTo(n - 1)
         IN  shorter \cup {Append(rows, r) : rows \in shorter, r \in RowPool}

\* the files read_csv may find: padded tells whether the column names
\* carry leading or trailing whitespace
Datasets == [padded : BOOLEAN, rows : RowsUpTo(MaxRows)]

NoData == [padded |-> FALSE, rows |-> <<>>]

IdleTrainer == [pc |-> "Idle", script |-> "none", data |-> NoData, X |-> <<>>,
                train |-> {}, model |-> Absent, before |-> Absent,
                stages |-> <<>>, failedAt |-> "none", runs |-> 0]

\* an exception ends the script: nothing after the raising line runs
Fail(stage) ==
    /\ trainer' = [trainer EXCEPT !.pc = "Idle", !.failedAt = stage]
    /\ UNCHANGED artifact

\* the script is started
StartRun(script) ==
    /\ trainer.pc \in {"Idle", "Persisted"}
    /\ trainer.runs < MaxRuns
    /\ trainer' = [IdleTrainer EXCEPT !.pc = "Loading", !.script = script,
                                      !.before = artifact,
                                      !.runs = trainer.runs + 1]
    /\ UNCHANGED <<URL, result, artifact, loads, req>>

\* model.py:8, model-checkpoint.py:8-9: read_csv, and in the checkpoint
\* script the column names are stripped
LoadDataset ==
    /\ trainer.pc = "Loading"
    /\ \/ Fail("Loading")
       \/ \E d \in Datasets :
            /\ trainer' = [trainer EXCEPT
                   !.pc = "Extracting",
                   !.data = IF trainer.script = "model-checkpoint.py"
                            THEN [d EXCEPT !.padded = FALSE] ELSE d,
                   !.stages = Append(@, "Loading")]
            /\ UNCHANGED artifact
    /\ UNCHANGED <<URL, result, loads, req>>

\* model.py:11-16, model-checkpoint.py:12-15: data['URL'] raises KeyError on
\* a padded column name; extract_features is applied to every row and an
\* exception in any row ends the script
ExtractRows ==
    /\ trainer.pc = "Extracting"
    /\ LET rows == trainer.data.rows
           rs == [k \in 1..Len(rows) |-> extract_features(rows[k].URL)]
       IN  IF trainer.data.padded \/ \E k \in 1..Len(rows) : rs[k].raised # "none"
           THEN Fail("Extracting")
           ELSE /\ trainer' = [trainer EXCEPT
                       !.pc = "Splitting",
                       !.X = [k \in 1..Len(rows) |-> rs[k].features],
                       !.stages = Append(@, "Extracting")]
                /\ UNCHANGED artifact
    /\ UNCHANGED <<URL, result, loads, req>>

\* train_test_split(X, y, test_size=0.2): the size of the test partition,
\* ceil(0.2 * n)
TestSize(n) == (2 * n + 9) \div 10

\* model.py:19, model-checkpoint.py:18: train_test_split raises ValueError
\* when the train partition would be empty; the shuffle is fixed by
\* random_state but unknown, so any partition of the right size is taken
Split ==
    /\ trainer.pc = "Splitting"
    /\ LET n == Len(trainer.X)
       IN  IF n - TestSize(n) <= 0
           THEN Fail("Splitting")
           ELSE \E train \in SUBSET (1..n) :
                  /\ Cardinality(train) = n - TestSize(n)
                  /\ trainer' = [trainer EXCEPT !.pc = "Fitting",
                                                !.train = train,
                                                !.stages = Append(@, "Splitting")]
                  /\ UNCHANGED artifact
    /\ UNCHANGED <<URL, result, loads, req>>

\* classes_: the sorted labels of the train partition
ClassesOf(labels) ==
    IF labels = {0, 1} THEN <<0, 1>>
    ELSE IF labels = {0} THEN <<0>> ELSE <<1>>

\* a variant that writes the artifact as soon as the model is fitted
FitWriting ==
    /\ trainer.pc = "Fitting"
    /\ LET labels == {trainer.data.rows[k].Label : k \in trainer.train}
           model == Fitted(Keys(trainer.X[1]), ClassesOf(labels))
       IN  /\ trainer' = [trainer EXCEPT
                   !.pc = IF trainer.script = "model.py"
                          THEN "Evaluating" ELSE "Persisting",
                   !.model = model,
                   !.stages = Append(@, "Fitting")]
           /\ artifact' = model
    /\ UNCHANGED <<URL, result, loads, req>>

\* model.py:22-23 (GradientBoostingClassifier, whose fit raises ValueError
\* on a single class), model-checkpoint.py:19-20 (RandomForestClassifier)
Fit ==
    /\ trainer.pc = "Fitting"
    /\ LET labels == {trainer.data.rows[k].Label : k \in trainer.train}
       IN  IF trainer.script = "model.py" /\ Cardinality(labels) < 2
           THEN Fail("Fitting")
           ELSE /\ trainer' = [trainer EXCEPT
                       !.pc = IF trainer.script = "model.py"
                              THEN "Evaluating" ELSE "Persisting",
                       !.model = Fitted(Keys(trainer.X[1]), ClassesOf(labels)),
                       !.stages = Append(@, "Fitting")]
                /\ UNCHANGED artifact
    /\ UNCHANGED <<URL, result, loads, req>>

\* model.py:26-27: the holdout accuracy is computed and printed; the
\* checkpoint script has no such step
Evaluate ==
    /\ trainer.pc = "Evaluating"
    /\ trainer' = [trainer EXCEPT !.pc = "Persisting",
                                  !.stages = Append(@, "Evaluating")]
    /\ UNCHANGED <<URL, result, artifact, loads, req>>

\* model.py:30, model-checkpoint.py:23: joblib.dump writes the file in
\* place; when the write fails the file is as before (it could not be
\* opened) or truncated
Dump ==
    /\ trainer.pc = "Persisting"
    /\ \/ /\ artifact' = trainer.model
          /\ trainer' = [trainer EXCEPT !.pc = "Persisted"]
       \/ /\ artifact' \in {artifact, Partial}
          /\ trainer' = [trainer EXCEPT !.pc = "Idle", !.failedAt = "Persisting"]
    /\ UNCHANGED <<URL, result, loads, req>>

(***************************************************************************)
(* Specifications.                                                         *)
(***************************************************************************)
ExtractInit ==
    /\ URL \in URLs
    /\ result = [raised |-> "pending", features |-> <<>>]
    /\ artifact = Absent
    /\ loads = 0
    /\ req = [i \in Requests |-> IdleRequest]
    /\ trainer = IdleTrainer

\* feature_extraction.py:4-36, called on URL
CallExtract ==
    /\ result.raised = "pending"
    /\ result' = extract_features(URL)
    /\ UNCHANGED <<URL, artifact, loads, req, trainer>>

ExtractNext == CallExtract

ExtractSpec == ExtractInit /\ [][ExtractNext]_vars

ServeInit ==
    /\ URL = <<>>
    /\ result = [raised |-> "pending", features |-> <<>>]
    /\ artifact \in ServedArtifacts
    /\ loads = 0
    /\ req = [i \in Requests |-> IdleRequest]
    /\ trainer = IdleTrainer

ServeNext ==
    \E i \in Requests :
        \/ \E u \in RequestURLs : Analyze(i, u)
        \/ LoadModel(i)
        \/ ExtractRequest(i)
        \/ ScoreRequest(i)
        \/ Render(i)

ServeSpec == ServeInit /\ [][ServeNext]_vars

\* the file a training run may find on disk
TrainInit ==
    /\ URL = <<>>
    /\ result = [raised |-> "pending", features |-> <<>>]
    /\ artifact \in {Absent, Fitted(StaleSchema, <<0, 1>>)}
    /\ loads = 0
    /\ req = [i \in Requests |-> IdleRequest]
    /\ trainer = IdleTrainer

TrainNext ==
    \/ \E script \in Scripts : StartRun(script)
    \/ LoadDataset
    \/ ExtractRows
    \/ Split
    \/ Fit
    \/ Evaluate
    \/ Dump

TrainSpec == TrainInit /\ [][TrainNext]_vars

(***************************************************************************)
(* Properties.                                                             *)
(***************************************************************************)
Called == result.raised # "pending"

Returned == result.raised = "none"

Domain == urlparse(URL).netloc

\* C1: extract_features fails, and returns no feature vector, when the URL
\* is empty or cannot be parsed.  (Violated: the empty URL yields a vector.)
C1_EmptyOrUnparseableFails ==
    (Called /\ (URL = <<>> \/ ~urlparse(URL).ok)) => ~Returned

\* C2: a prediction request on the empty URL ends in an error and never
\* yields a label/confidence pair or a rendered verdict.  (Violated when a
\* fitted artifact is on disk.)
C2_EmptyUrlNeverScored ==
    \A i \in Requests :
        (req[i].pc # "idle" /\ req[i].URL = <<>>)
            => req[i].pc \notin {"result", "done"}

\* C3: within one serving process the artifact is loaded at most once,
\* whatever the number and interleaving of requests.  (Violated: every
\* request loads it.)
C3_LoadedAtMostOnce == loads <= 1

AllStages == <<"Loading", "Extracting", "Splitting", "Fitting", "Evaluating">>

\* the stages a script has before it writes the artifact
StagesOf(script) ==
    IF script = "model.py" THEN AllStages ELSE SubSeq(AllStages, 1, 4)

RunStarted == trainer.script # "none"

C5_SchemaCompared ==
    \A i \in Requests :
        req[i].pc \in {"result", "done"}
            => req[i].model.schema = Keys(req[i].features)

FeatureSchema == <<"url_length", "num_digits", "num_special_chars",
                   "has_http", "has_https", "num_dots", "num_hyphens",
                   "domain_length", "num_params", "path_length",
                   "has_ip_address", "is_shortened", "has_at_symbol",
                   "num_subdomains", "has_malformed_url",
                   "num_encoded_chars", "has_suspicious_tld">>

\* C7: every vector extract_features returns has the same 17 feature names
\* in the same order, whatever the URL.
C7_FixedSchema == Returned => Keys(result.features) = FeatureSchema

\* C7 witness: a vector was returned for a URL without a domain and with
\* special characters
C7_Witness ==
    /\ Returned
    /\ Domain = <<>>
    /\ Get(result.features, "num_special_chars") > 2

\* C8: a URL containing http:// or https:// has has_http = 1 and
\* has_malformed_url = 1, and has_http = 1 implies has_malformed_url = 1.
C8_HttpImpliesMalformed ==
    Returned =>
        /\ Get(result.features, "has_http") = 1
               => Get(result.features, "has_malformed_url") = 1
        /\ (\/ Contains(URL, <<"h","t","t","p",":","/","/">>)
            \/ Contains(URL, <<"h","t","t","p","s",":","/","/">>))
               => /\ Get(result.features, "has_http") = 1
                  /\ Get(result.features, "has_malformed_url") = 1

\* C8 witness: a vector was returned for a URL containing https:// after
\* its first character
C8_Witness ==
    /\ Returned
    /\ Get(result.features, "has_http") = 1
    /\ Get(result.features, "has_https") = 0
    /\ Contains(URL, <<"h","t","t","p","s",":","/","/">>)

\* C9: num_subdomains = num_dots - 1 with num_dots the dots of the domain
\* only; a domain without a dot, and a URL without an authority, give -1.
C9_SubdomainsNotClamped ==
    Returned =>
        /\ Get(result.features, "num_dots") = Count(Domain, ".")
        /\ Get(result.features, "num_subdomains")
               = Get(result.features, "num_dots") - 1
        /\ Count(Domain, ".") = 0
               => Get(result.features, "num_subdomains") = -1
        /\ ~Contains(URL, <<"/", "/">>)
               => Get(result.features, "num_subdomains") = -1

\* C9 witness: a URL with dots, none of them in its domain, gave -1
C9_Witness ==
    /\ Returned
    /\ Count(URL, ".") > 0
    /\ Get(result.features, "num_subdomains") = -1

\* C10: is_shortened = 1 exactly when the domain is one of the listed
\* shortener domains.  (Violated: the regex is searched anywhere in the
\* domain.)
C10_ShortenerExact ==
    Returned =>
        (Get(result.features, "is_shortened") = 1 <=> Domain \in Shorteners)

==========================================================================
